---- MODULE Spec2Model ----
(***************************************************************************)
(* Model of app/services/message_queue.py: ThreadSafeQueue (an in-memory   *)
(* FIFO of messages, an asyncio.Event used as wakeup signal, a list of     *)
(* worker tasks and a shutdown flag) and its worker loop.                   *)
(*                                                                         *)
(* Every method is an asyncio coroutine run on one event loop, so a task   *)
(* runs without interruption from one suspension point to the next.  The   *)
(* suspension points of the code are:                                      *)
(*   - dequeue, line 39: await wait_for(event.wait(), timeout=1.0)         *)
(*   - _worker_loop, line 85 and 88: await asyncio.sleep(...)              *)
(*   - _safe_process_message, line 101: await worker_func(message)         *)
(*   - shutdown, line 118: await asyncio.gather(...)                       *)
(*   - a task created by create_task (line 68) starts at a later step.     *)
(* One action of the model is one such uninterrupted run of a task, or a   *)
(* callback of the event loop (a timer expiring, a cancellation request).  *)
(*                                                                         *)
(* Two smaller models share the module.  LockSpec runs enqueue, dequeue,   *)
(* get_length and peek one statement per step, to show where self._lock    *)
(* is held and which uses of self.queue are made under it.  PrepSpec       *)
(* applies prepare_message and enqueue_message to every payload of a      *)
(* bounded set of dicts.                                                   *)
(***************************************************************************)
EXTENDS Integers, Sequences, FiniteSets, TLC

\* ---------------------------------------------------------------- bounds
MaxJobs == 3
MaxWorkers == 2
MaxFairJobs == 2
MaxPrepares == 2
MaxContexts == 2
MaxPhones == 2

Jobs == 1..MaxJobs
WorkerIds == 1..MaxWorkers
NoJob == 0
Contexts == 1..MaxContexts

VARIABLES
    queue,          \* self.queue: the messages held, head first
    event,          \* self._event: the flag of the asyncio.Event
    workers,        \* self._workers: the worker tasks, in registration order
    shutting_down,  \* self._shutting_down
    pc,             \* per worker task: where the task is suspended
    message,        \* per worker task: the local `message` of _worker_loop
    cancel,         \* per worker task: a cancellation was requested and not yet delivered
    sd_pc,          \* the caller of shutdown(): "idle" or "gathering"
    sd_wait,        \* the tasks handed to asyncio.gather by the running shutdown()
    peeked,         \* history: a peek() call was made
    enqueued,       \* history: the jobs passed to enqueue, in call order
    invoked,        \* history: the jobs the handler was invoked with, in order
    outcome,        \* history: how the handler invocation of each job ended
    waitFrom,       \* history: per worker in dequeue, Len(enqueued) when its wait began
    payload,        \* the dict passed to prepare_message, as it was before the first call
    envelope,       \* the same dict as it is now (prepare_message changes it in place)
    prepares,       \* the number of prepare_message calls made on the dict
    lpc,            \* per calling context: the statement of a queue method it is at
    lock,           \* per calling context: how many times it holds self._lock (an RLock)
    running,        \* the set holding the context the event loop is running
    bare,           \* history: the lines that used self.queue without holding self._lock
    qsize,          \* what the last get_length call returned, as a sequence of one number
    app,            \* the FastAPI application of main.py: "init", "up" or "stopped"
    worker_count    \* main.py's worker_count once startup_event has read it, as a sequence of one number

vars == <<queue, event, workers, shutting_down, pc, message, cancel,
          sd_pc, sd_wait, peeked, enqueued, invoked, outcome, waitFrom,
          payload, envelope, prepares, lpc, lock, running, bare, qsize,
          app, worker_count>>

\* the variables of the prepare_message model
prepVars == <<payload, envelope, prepares>>

\* the variables of the statement-level model of the locked methods
lockVars == <<lpc, lock, running, bare, qsize>>

\* the variables of the application's lifecycle
appVars == <<app, worker_count>>

\* ------------------------------------------------------------- helpers
Range(s) == {s[i] : i \in 1..Len(s)}

Registered == Range(workers)

Invocations(j) == Cardinality({i \in 1..Len(invoked) : invoked[i] = j})

Occurrences(j) == Cardinality({i \in 1..Len(queue) : queue[i] = j})

Holders(j) == {w \in WorkerIds : pc[w] = "handling" /\ message[w] = j}

\* ------------------------------------------------ queue.Queue primitives
\* variant of QueuePut: insert at the head
QueuePut_Front(q, m) == <<m>> \o q

\* Queue.put(message): append at the tail
QueuePut(q, m) == Append(q, m)

\* variant of QueueGetItem: return the newest item
QueueGetItem_Last(q) == q[Len(q)]

\* Queue.get(): the item returned
QueueGetItem(q) == Head(q)

\* variant of QueueGetRest: the item returned stays in the queue
QueueGetRest_Keep(q) == q

\* Queue.get(): the items left
QueueGetRest(q) == Tail(q)

\* variant of QueueEmpty: reports empty whatever the queue holds
QueueEmpty_Always(q) == TRUE

\* Queue.empty()
QueueEmpty(q) == Len(q) = 0

\* variant of QueueSize: Queue.maxsize, which is 0 for an unbounded queue
QueueSize_MaxSize(q) == 0

\* Queue.qsize()
QueueSize(q) == Len(q)

\* ------------------------------------------------------ message dicts
\* A message is a Python dict: a function from its keys to their values,
\* with Absent for a key the dict does not have.  None, the empty string and
\* the empty dict are values like any other.
Absent == "<absent>"
None == "<None>"
EmptyMap == "{}"

\* the keys prepare_message looks at, and two it only carries along
PreparedFields == {"id", "timestamp", "message_type", "metadata"}
Fields == PreparedFields \cup {"media_url", "content"}

\* the values a caller may give each key
FieldValues ==
    [id           |-> {Absent, None, "id-a"},
     timestamp    |-> {Absent, "", "t-a"},
     message_type |-> {Absent, None, "text", "media"},
     metadata     |-> {Absent, None, EmptyMap, "{k: v}"},
     media_url    |-> {Absent, None, "", "url-a"},
     content      |-> {Absent, "hi"}]

Payloads ==
    {[id |-> a, timestamp |-> b, message_type |-> c, metadata |-> d,
      media_url |-> e, content |-> g] :
        a \in FieldValues.id, b \in FieldValues.timestamp,
        c \in FieldValues.message_type, d \in FieldValues.metadata,
        e \in FieldValues.media_url, g \in FieldValues.content}

EmptyDict == [f \in Fields |-> Absent]

\* what str(uuid.uuid4()) and datetime.now().isoformat() can return
GenIds == {"uuid-1", "uuid-2"}
GenTimes == {"now-1", "now-2"}

\* variant of Truthy: the key is in the dict
Truthy_Present(v) == v # Absent

\* the truth value Python gives message.get(key): get returns None for a key
\* that is absent, and None and the empty string are false
Truthy(v) == v \notin {Absent, None, ""}

\* variant of PrepareMessage: the id is generated anew on every call
PrepareMessage_NewId(m, gid, gts) == [m EXCEPT !["id"] = gid]

\* prepare_message(message), lines 126-144: each of the four keys is set only
\* if the dict does not have it (`not in`), in the order of the code; gid and
\* gts are the values uuid4 and now() would give
PrepareMessage(m, gid, gts) ==
    LET m1 == IF m["id"] = Absent THEN [m EXCEPT !["id"] = gid] ELSE m
        m2 == IF m1["timestamp"] = Absent
              THEN [m1 EXCEPT !["timestamp"] = gts] ELSE m1
        m3 == IF m2["message_type"] = Absent
              THEN [m2 EXCEPT !["message_type"] =
                        IF Truthy(m2["media_url"]) THEN "media" ELSE "text"]
              ELSE m2
        m4 == IF m3["metadata"] = Absent
              THEN [m3 EXCEPT !["metadata"] = EmptyMap] ELSE m3
    IN  m4

\* ------------------------------------------------------------------ Init
QueueInit ==
    /\ queue = <<>>
    /\ event = FALSE
    /\ workers = <<>>
    /\ shutting_down = FALSE
    /\ pc = [w \in WorkerIds |-> "none"]
    /\ message = [w \in WorkerIds |-> NoJob]
    /\ cancel = [w \in WorkerIds |-> FALSE]
    /\ sd_pc = "idle"
    /\ sd_wait = {}
    /\ peeked = FALSE
    /\ enqueued = <<>>
    /\ invoked = <<>>
    /\ outcome = [j \in Jobs |-> "none"]
    /\ waitFrom = [w \in WorkerIds |-> 0]

\* no context is inside a method of the queue, the lock is free
LockIdle ==
    /\ lpc = [c \in Contexts |-> "idle"]
    /\ lock = [c \in Contexts |-> 0]
    /\ running = {}
    /\ bare = {}
    /\ qsize = <<>>

\* no payload has been handed to prepare_message
PrepIdle ==
    /\ payload = EmptyDict
    /\ envelope = EmptyDict
    /\ prepares = 0

\* the application before its startup event: main.py has not read the
\* configured worker count yet
AppIdle ==
    /\ app = "init"
    /\ worker_count = <<>>

Init == QueueInit /\ LockIdle /\ PrepIdle /\ AppIdle

\* Event.set() wakes every task waiting on the event
WakeWaiters(p) == [w \in WorkerIds |-> IF p[w] = "waiting" THEN "woken" ELSE p[w]]

\* ------------------------------------------------------ prepare_message
\* a caller holds any payload
PrepInit ==
    /\ QueueInit
    /\ LockIdle
    /\ AppIdle
    /\ payload \in Payloads
    /\ envelope = payload
    /\ prepares = 0

\* one call of prepare_message on the dict; the dict is changed in place and
\* returned
Prepare ==
    /\ prepares < MaxPrepares
    /\ \E gid \in GenIds, gts \in GenTimes :
        envelope' = PrepareMessage(envelope, gid, gts)
    /\ prepares' = prepares + 1
    /\ UNCHANGED <<payload, lockVars, appVars>>
    /\ UNCHANGED <<queue, event, workers, shutting_down, pc, message, cancel,
                   sd_pc, sd_wait, peeked, enqueued, invoked, outcome, waitFrom>>

\* variant of EnqueueMessage: the payload is enqueued as it was passed
EnqueueMessage_Raw ==
    /\ prepares < MaxPrepares
    /\ prepares' = prepares + 1
    /\ queue' = QueuePut(queue, envelope)
    /\ enqueued' = Append(enqueued, envelope)
    /\ event' = TRUE
    /\ pc' = WakeWaiters(pc)
    /\ UNCHANGED <<payload, envelope, lockVars, appVars>>
    /\ UNCHANGED <<workers, shutting_down, message, cancel, sd_pc, sd_wait,
                   peeked, invoked, outcome, waitFrom>>

\* enqueue_message(message), lines 147-150: prepare_message on the dict, then
\* message_queue.enqueue of the prepared dict (lines 28-30)
EnqueueMessage ==
    /\ prepares < MaxPrepares
    /\ \E gid \in GenIds, gts \in GenTimes :
        envelope' = PrepareMessage(envelope, gid, gts)
    /\ prepares' = prepares + 1
    /\ queue' = QueuePut(queue, envelope')
    /\ enqueued' = Append(enqueued, envelope')
    /\ event' = TRUE
    /\ pc' = WakeWaiters(pc)
    /\ UNCHANGED <<payload, lockVars, appVars>>
    /\ UNCHANGED <<workers, shutting_down, message, cancel, sd_pc, sd_wait,
                   peeked, invoked, outcome, waitFrom>>

\* the dicts TwilioWhatsAppAdapter.parse_message builds for the webhook: no
\* id, the other keys always set, metadata a dict, media_url None or a URL
IsAdapterPayload(m) ==
    /\ m["id"] = Absent
    /\ m["timestamp"] \notin {Absent, None}
    /\ m["message_type"] = (IF Truthy(m["media_url"]) THEN "media" ELSE "text")
    /\ m["metadata"] = "{k: v}"
    /\ m["media_url"] \in {None, "url-a"}
    /\ m["content"] # Absent

PrepNext == Prepare \/ EnqueueMessage

PrepSpec == PrepInit /\ [][PrepNext]_vars

\* ------------------------------------- the locked methods, by statement
\* enqueue, dequeue, get_length and peek, one statement per step, called by
\* MaxContexts contexts of the event loop.  A context that was given the
\* loop runs its statements until it suspends or returns; the label of a
\* context is the line of message_queue.py it is about to execute.
poolVars == <<workers, shutting_down, pc, message, cancel, sd_pc, sd_wait,
              peeked, invoked, outcome, waitFrom>>

Goto(c, l) == lpc' = [lpc EXCEPT ![c] = l]

\* a use of self.queue at the given line: recorded if the lock is not held
Touch(c, line) == bare' = IF lock[c] = 0 THEN bare \cup {line} ELSE bare

\* an idle context calls enqueue (line 26), dequeue (32), get_length (49) or
\* peek (54) when the event loop is free
LockCall(c) ==
    /\ running = {}
    /\ lpc[c] = "idle"
    /\ \E l \in {"e28", "d35", "g51", "p56"} :
        /\ l = "e28" => Len(enqueued) < MaxJobs
        /\ Goto(c, l)
    /\ running' = {c}
    /\ UNCHANGED <<queue, event, enqueued, lock, bare, qsize, poolVars, prepVars, appVars>>

\* the line after each `with self._lock:`
AfterAcquire == [e28 |-> "e29", d44 |-> "d45", g51 |-> "g52", p56 |-> "p57"]

\* `with self._lock:` at lines 28, 44, 51 and 56: the RLock is taken when no
\* other context owns it
AcquireLock(c) ==
    /\ running = {c}
    /\ lpc[c] \in DOMAIN AfterAcquire
    /\ \A o \in Contexts \ {c} : lock[o] = 0
    /\ lock' = [lock EXCEPT ![c] = @ + 1]
    /\ Goto(c, AfterAcquire[lpc[c]])
    /\ UNCHANGED <<queue, event, enqueued, running, bare, qsize, poolVars, prepVars, appVars>>

\* enqueue line 29: self.queue.put(message)
EnqueuePut(c) ==
    /\ running = {c}
    /\ lpc[c] = "e29"
    /\ queue' = QueuePut(queue, Len(enqueued) + 1)
    /\ enqueued' = Append(enqueued, Len(enqueued) + 1)
    /\ Touch(c, 29)
    /\ Goto(c, "e30")
    /\ UNCHANGED <<event, lock, running, qsize, poolVars, prepVars, appVars>>

\* enqueue line 30: self._event.set(), which wakes the contexts waiting
EnqueueSet(c) ==
    /\ running = {c}
    /\ lpc[c] = "e30"
    /\ event' = TRUE
    /\ lpc' = [o \in Contexts |->
                IF o = c THEN "e_ret"
                ELSE IF lpc[o] = "waiting" THEN "woken" ELSE lpc[o]]
    /\ UNCHANGED <<queue, enqueued, lock, running, bare, qsize, poolVars, prepVars, appVars>>

\* the end of a with block that returns to the caller: of enqueue (after
\* line 30), of dequeue with no job (line 47), of get_length (line 52) and of
\* peek (lines 61, 62)
ReleaseReturn(c) ==
    /\ running = {c}
    /\ lpc[c] \in {"e_ret", "d47", "g_ret", "p_ret"}
    /\ lock' = [lock EXCEPT ![c] = @ - 1]
    /\ Goto(c, "idle")
    /\ running' = {}
    /\ UNCHANGED <<queue, event, enqueued, bare, qsize, poolVars, prepVars, appVars>>

\* dequeue line 35: if self.queue.empty(), before any lock is taken
DequeueCheck(c) ==
    /\ running = {c}
    /\ lpc[c] = "d35"
    /\ Touch(c, 35)
    /\ Goto(c, IF QueueEmpty(queue) THEN "d36" ELSE "d44")
    /\ UNCHANGED <<queue, event, enqueued, lock, running, qsize, poolVars, prepVars, appVars>>

\* dequeue line 36: self._event.clear()
DequeueClear(c) ==
    /\ running = {c}
    /\ lpc[c] = "d36"
    /\ event' = FALSE
    /\ Goto(c, "d39")
    /\ UNCHANGED <<queue, enqueued, lock, running, bare, qsize, poolVars, prepVars, appVars>>

\* dequeue line 39: await wait_for(self._event.wait(), 1.0); the event was
\* cleared by line 36, so the context suspends and gives up the loop
DequeueWait(c) ==
    /\ running = {c}
    /\ lpc[c] = "d39"
    /\ Goto(c, "waiting")
    /\ running' = {}
    /\ UNCHANGED <<queue, event, enqueued, lock, bare, qsize, poolVars, prepVars, appVars>>

\* the timer of wait_for expires
WaitTimeout(c) ==
    /\ running = {}
    /\ lpc[c] \in {"waiting", "woken"}
    /\ Goto(c, "timedout")
    /\ UNCHANGED <<queue, event, enqueued, lock, running, bare, qsize, poolVars, prepVars, appVars>>

\* dequeue lines 40-41: TimeoutError, return None
ReturnTimedOut(c) ==
    /\ running = {}
    /\ lpc[c] = "timedout"
    /\ Goto(c, "idle")
    /\ UNCHANGED <<queue, event, enqueued, lock, running, bare, qsize, poolVars, prepVars, appVars>>

\* the wait of line 39 is over, the context goes on to line 44
ResumeSignalled(c) ==
    /\ running = {}
    /\ lpc[c] = "woken"
    /\ Goto(c, "d44")
    /\ running' = {c}
    /\ UNCHANGED <<queue, event, enqueued, lock, bare, qsize, poolVars, prepVars, appVars>>

\* variant of DequeueRecheck: the removal is attempted without the re-check
DequeueRecheck_Skip(c) ==
    /\ running = {c}
    /\ lpc[c] = "d45"
    /\ Touch(c, 45)
    /\ Goto(c, "d46")
    /\ UNCHANGED <<queue, event, enqueued, lock, running, qsize, poolVars, prepVars, appVars>>

\* dequeue line 45: if not self.queue.empty()
DequeueRecheck(c) ==
    /\ running = {c}
    /\ lpc[c] = "d45"
    /\ Touch(c, 45)
    /\ Goto(c, IF ~QueueEmpty(queue) THEN "d46" ELSE "d47")
    /\ UNCHANGED <<queue, event, enqueued, lock, running, qsize, poolVars, prepVars, appVars>>

\* dequeue line 46: self.queue.get(), which blocks while the queue is empty
DequeueGet(c) ==
    /\ running = {c}
    /\ lpc[c] = "d46"
    /\ queue # <<>>
    /\ Touch(c, 46)
    /\ queue' = QueueGetRest(queue)
    /\ Goto(c, "d46r")
    /\ UNCHANGED <<event, enqueued, lock, running, qsize, poolVars, prepVars, appVars>>

\* variant of DequeueReturnJob: the job is handled inside the with block
DequeueReturnJob_Held(c) ==
    /\ running = {c}
    /\ lpc[c] = "d46r"
    /\ Goto(c, "handler")
    /\ running' = {}
    /\ UNCHANGED <<queue, event, enqueued, lock, bare, qsize, poolVars, prepVars, appVars>>

\* dequeue line 46, the return: the with block is left, the lock released,
\* and the caller (_worker_loop lines 80-82) awaits the handler with the job
DequeueReturnJob(c) ==
    /\ running = {c}
    /\ lpc[c] = "d46r"
    /\ lock' = [lock EXCEPT ![c] = @ - 1]
    /\ Goto(c, "handler")
    /\ running' = {}
    /\ UNCHANGED <<queue, event, enqueued, bare, qsize, poolVars, prepVars, appVars>>

\* the handler invocation of _safe_process_message line 101 ends
HandlerDone(c) ==
    /\ running = {}
    /\ lpc[c] = "handler"
    /\ Goto(c, "idle")
    /\ UNCHANGED <<queue, event, enqueued, lock, running, bare, qsize, poolVars, prepVars, appVars>>

\* get_length line 52: self.queue.qsize()
GetLength(c) ==
    /\ running = {c}
    /\ lpc[c] = "g52"
    /\ Touch(c, 52)
    /\ qsize' = <<QueueSize(queue)>>
    /\ Goto(c, "g_ret")
    /\ UNCHANGED <<queue, event, enqueued, lock, running, poolVars, prepVars, appVars>>

\* peek line 57: if not self.queue.empty()
PeekCheck(c) ==
    /\ running = {c}
    /\ lpc[c] = "p57"
    /\ Touch(c, 57)
    /\ Goto(c, IF ~QueueEmpty(queue) THEN "p59" ELSE "p_ret")
    /\ UNCHANGED <<queue, event, enqueued, lock, running, qsize, poolVars, prepVars, appVars>>

\* peek lines 59-60: get() the head, blocking while the queue is empty, and
\* put() it back
PeekRotate(c) ==
    /\ running = {c}
    /\ lpc[c] = "p59"
    /\ queue # <<>>
    /\ Touch(c, 59)
    /\ queue' = QueuePut(QueueGetRest(queue), QueueGetItem(queue))
    /\ Goto(c, "p_ret")
    /\ UNCHANGED <<event, enqueued, lock, running, qsize, poolVars, prepVars, appVars>>

LockNext ==
    \E c \in Contexts :
        \/ LockCall(c)
        \/ AcquireLock(c)
        \/ EnqueuePut(c)
        \/ EnqueueSet(c)
        \/ ReleaseReturn(c)
        \/ DequeueCheck(c)
        \/ DequeueClear(c)
        \/ DequeueWait(c)
        \/ WaitTimeout(c)
        \/ ReturnTimedOut(c)
        \/ ResumeSignalled(c)
        \/ DequeueRecheck(c)
        \/ DequeueGet(c)
        \/ DequeueReturnJob(c)
        \/ HandlerDone(c)
        \/ GetLength(c)
        \/ PeekCheck(c)
        \/ PeekRotate(c)

LockSpec == Init /\ [][LockNext]_vars

\* ------------------------------------------------------------- producer
\* variant of Enqueue: the job is appended but the signal is not raised
Enqueue_NoSignal(j) ==
    /\ j = Len(enqueued) + 1
    /\ queue' = QueuePut(queue, j)
    /\ enqueued' = Append(enqueued, j)
    /\ UNCHANGED <<event, workers, shutting_down, pc, message, cancel, sd_pc,
                   sd_wait, peeked, invoked, outcome, waitFrom>>
    /\ UNCHANGED <<prepVars, lockVars, appVars>>

\* variant of Enqueue: the queue has a capacity and put() waits while it is
\* full
Enqueue_Bounded(j) ==
    /\ j = Len(enqueued) + 1
    /\ Len(queue) < MaxJobs - 1
    /\ queue' = QueuePut(queue, j)
    /\ event' = TRUE
    /\ pc' = WakeWaiters(pc)
    /\ enqueued' = Append(enqueued, j)
    /\ UNCHANGED <<workers, shutting_down, message, cancel, sd_pc, sd_wait,
                   peeked, invoked, outcome, waitFrom>>
    /\ UNCHANGED <<prepVars, lockVars, appVars>>

\* enqueue(message), lines 26-30; the jobs are distinct objects, named by the
\* position of their enqueue call
Enqueue(j) ==
    /\ j = Len(enqueued) + 1
    /\ queue' = QueuePut(queue, j)
    /\ event' = TRUE
    /\ pc' = WakeWaiters(pc)
    /\ enqueued' = Append(enqueued, j)
    /\ UNCHANGED <<workers, shutting_down, message, cancel, sd_pc, sd_wait,
                   peeked, invoked, outcome, waitFrom>>
    /\ UNCHANGED <<prepVars, lockVars, appVars>>

\* peek(), lines 54-62: Queue has no peek, the head is removed with get() and
\* put back with put(), which appends it at the tail
Peek ==
    /\ peeked' = TRUE
    /\ queue' = IF ~QueueEmpty(queue)
                THEN QueuePut(QueueGetRest(queue), QueueGetItem(queue))
                ELSE queue
    /\ UNCHANGED <<event, workers, shutting_down, pc, message, cancel, sd_pc,
                   sd_wait, enqueued, invoked, outcome, waitFrom>>
    /\ UNCHANGED <<prepVars, lockVars, appVars>>

\* ---------------------------------------------------------- worker pool
\* variant of RegisterUpTo: the task is created but not recorded in _workers
RegisterUpTo_Untracked(n) ==
    /\ \E w \in 1..n :
        /\ pc[w] = "none"
        /\ \A v \in 1..(w - 1) : pc[v] # "none"
        /\ pc' = [pc EXCEPT ![w] = "new"]
    /\ UNCHANGED <<queue, event, workers, shutting_down, message, cancel, sd_pc,
                   sd_wait, peeked, enqueued, invoked, outcome, waitFrom>>
    /\ UNCHANGED <<prepVars, lockVars, appVars>>

\* register_worker(worker_func), lines 64-70: create_task schedules the loop,
\* which starts running at a later step of the event loop
RegisterUpTo(n) ==
    /\ Len(workers) < n
    /\ LET w == Len(workers) + 1 IN
        /\ workers' = Append(workers, w)
        /\ pc' = [pc EXCEPT ![w] = "new"]
    /\ UNCHANGED <<queue, event, shutting_down, message, cancel, sd_pc, sd_wait,
                   peeked, enqueued, invoked, outcome, waitFrom>>
    /\ UNCHANGED <<prepVars, lockVars, appVars>>

Register == RegisterUpTo(MaxWorkers)

\* the effect of k successive register_worker calls
RegisterTimes(k) ==
    /\ Len(workers) + k <= MaxWorkers
    /\ workers' = workers \o [i \in 1..k |-> Len(workers) + i]
    /\ pc' = [w \in WorkerIds |->
                IF w \in (Len(workers) + 1)..(Len(workers) + k)
                THEN "new" ELSE pc[w]]
    /\ UNCHANGED <<queue, event, shutting_down, message, cancel, sd_pc, sd_wait,
                   peeked, enqueued, invoked, outcome, waitFrom>>
    /\ UNCHANGED <<prepVars, lockVars, appVars>>

\* variant of StartWorkerPool: the loop stops one worker short
StartWorkerPool_OneShort(n) == n >= 1 /\ RegisterTimes(n - 1)

\* start_worker_pool(num_workers), lines 167-175: register_worker is awaited
\* num_workers times with the same handler on the module's queue; no call
\* suspends, so the pool is registered in one step
StartWorkerPool(n) == n >= 1 /\ RegisterTimes(n)

\* variant of TakeAndHandle: the handler is started as a task of its own and
\* not awaited, the loop goes on to its sleep
TakeAndHandle_Detached(w) ==
    /\ queue' = QueueGetRest(queue)
    /\ message' = [message EXCEPT ![w] = NoJob]
    /\ invoked' = Append(invoked, QueueGetItem(queue))
    /\ pc' = [pc EXCEPT ![w] = "sleeping"]
    /\ waitFrom' = [waitFrom EXCEPT ![w] = 0]
    /\ UNCHANGED event

\* variant of TakeAndHandle: the worker takes the job for "no job" and goes
\* to its sleep without calling the handler
TakeAndHandle_Dropped(w) ==
    /\ queue' = QueueGetRest(queue)
    /\ message' = [message EXCEPT ![w] = NoJob]
    /\ pc' = [pc EXCEPT ![w] = "sleeping"]
    /\ waitFrom' = [waitFrom EXCEPT ![w] = 0]
    /\ UNCHANGED <<event, invoked>>

\* dequeue lines 44-46 with a job present, then _worker_loop lines 80-82 and
\* _safe_process_message up to the await of the handler (line 101)
TakeAndHandle(w) ==
    /\ queue' = QueueGetRest(queue)
    /\ message' = [message EXCEPT ![w] = QueueGetItem(queue)]
    /\ invoked' = Append(invoked, QueueGetItem(queue))
    /\ pc' = [pc EXCEPT ![w] = "handling"]
    /\ waitFrom' = [waitFrom EXCEPT ![w] = 0]
    /\ UNCHANGED event

\* dequeue lines 35-39: the queue is empty, clear the signal and wait for it
ClearAndWait(w) ==
    /\ event' = FALSE
    /\ pc' = [pc EXCEPT ![w] = "waiting"]
    /\ waitFrom' = [waitFrom EXCEPT ![w] = Len(enqueued)]
    /\ message' = [message EXCEPT ![w] = NoJob]
    /\ UNCHANGED <<queue, invoked>>

\* _worker_loop line 77 with the flag set: leave the loop, the task finishes
ExitLoop(w) ==
    /\ pc' = [pc EXCEPT ![w] = "stopped"]
    /\ message' = [message EXCEPT ![w] = NoJob]
    /\ UNCHANGED <<queue, event, invoked, waitFrom>>

\* variant of LoopTop: the loop does not look at the shutdown flag
LoopTop_NoFlag(w) ==
    IF QueueEmpty(queue) THEN ClearAndWait(w)
    ELSE TakeAndHandle(w)

\* the conversation a job belongs to: the phone_number of its payload, which
\* the queue and the worker loop never read.  The senders take turns.
Phone(j) == j % MaxPhones

\* variant of LoopTop: a worker does not take a job of a conversation that
\* another worker is handling
LoopTop_Exclusive(w) ==
    IF shutting_down THEN ExitLoop(w)
    ELSE IF QueueEmpty(queue)
            \/ \E v \in WorkerIds \ {w} :
                pc[v] = "handling" /\ Phone(message[v]) = Phone(QueueGetItem(queue))
         THEN ClearAndWait(w)
    ELSE TakeAndHandle(w)

\* one pass from the top of the while loop (line 77) to the next suspension
LoopTop(w) ==
    IF shutting_down THEN ExitLoop(w)
    ELSE IF QueueEmpty(queue) THEN ClearAndWait(w)
    ELSE TakeAndHandle(w)

\* first step of the task created by register_worker, lines 72-79
Start(w) ==
    /\ pc[w] = "new"
    /\ ~cancel[w]
    /\ LoopTop(w)
    /\ UNCHANGED <<workers, shutting_down, cancel, sd_pc, sd_wait, peeked, enqueued, outcome>>
    /\ UNCHANGED <<prepVars, lockVars, appVars>>

\* variant of Timeout: the wait has no timeout
Timeout_Never(w) ==
    /\ FALSE
    /\ UNCHANGED vars

\* the 1.0 s timer of wait_for (line 39) expires: the wait is cancelled and
\* the task is scheduled to resume with TimeoutError at a later step of the
\* event loop.  The timer can also expire in the pass of the event loop in
\* which the signal was set, before the woken task has run (wait_for built on
\* asyncio.timeout then still raises TimeoutError).
Timeout(w) ==
    /\ pc[w] \in {"waiting", "woken"}
    /\ ~cancel[w]
    /\ pc' = [pc EXCEPT ![w] = "timedout"]
    /\ UNCHANGED <<queue, event, workers, shutting_down, message, cancel, sd_pc,
                   sd_wait, peeked, enqueued, invoked, outcome, waitFrom>>
    /\ UNCHANGED <<prepVars, lockVars, appVars>>

\* variant of ResumeTimedOut: the timeout falls through to the removal of
\* lines 44-47
ResumeTimedOut_Recheck(w) ==
    /\ pc[w] = "timedout"
    /\ ~cancel[w]
    /\ IF ~QueueEmpty(queue)
       THEN TakeAndHandle(w)
       ELSE /\ pc' = [pc EXCEPT ![w] = "sleeping"]
            /\ waitFrom' = [waitFrom EXCEPT ![w] = 0]
            /\ UNCHANGED <<queue, event, message, invoked>>
    /\ UNCHANGED <<workers, shutting_down, cancel, sd_pc, sd_wait, peeked, enqueued, outcome>>
    /\ UNCHANGED <<prepVars, lockVars, appVars>>

\* the task resumes with TimeoutError: dequeue returns None (lines 40-41),
\* the loop sleeps 0.1 s (lines 83-85)
ResumeTimedOut(w) ==
    /\ pc[w] = "timedout"
    /\ ~cancel[w]
    /\ pc' = [pc EXCEPT ![w] = "sleeping"]
    /\ waitFrom' = [waitFrom EXCEPT ![w] = 0]
    /\ UNCHANGED <<queue, event, workers, shutting_down, message, cancel, sd_pc,
                   sd_wait, peeked, enqueued, invoked, outcome>>
    /\ UNCHANGED <<prepVars, lockVars, appVars>>

\* variant of ResumeWoken: a woken task that finds the queue empty waits for
\* the signal again instead of returning
ResumeWoken_Rewait(w) ==
    /\ pc[w] = "woken"
    /\ ~cancel[w]
    /\ IF ~QueueEmpty(queue)
       THEN TakeAndHandle(w)
       ELSE ClearAndWait(w)
    /\ UNCHANGED <<workers, shutting_down, cancel, sd_pc, sd_wait, peeked, enqueued, outcome>>
    /\ UNCHANGED <<prepVars, lockVars, appVars>>

\* the task resumes after the signal was set: dequeue lines 44-47, then
\* _worker_loop lines 80-85
ResumeWoken(w) ==
    /\ pc[w] = "woken"
    /\ ~cancel[w]
    /\ IF ~QueueEmpty(queue)
       THEN TakeAndHandle(w)
       ELSE /\ pc' = [pc EXCEPT ![w] = "sleeping"]
            /\ waitFrom' = [waitFrom EXCEPT ![w] = 0]
            /\ UNCHANGED <<queue, event, message, invoked>>
    /\ UNCHANGED <<workers, shutting_down, cancel, sd_pc, sd_wait, peeked, enqueued, outcome>>
    /\ UNCHANGED <<prepVars, lockVars, appVars>>

\* variant of SleepDone: a worker that was given no job leaves its loop
SleepDone_Exit(w) ==
    /\ pc[w] = "sleeping"
    /\ ~cancel[w]
    /\ ExitLoop(w)
    /\ UNCHANGED <<workers, shutting_down, cancel, sd_pc, sd_wait, peeked, enqueued, outcome>>
    /\ UNCHANGED <<prepVars, lockVars, appVars>>

\* asyncio.sleep(0.1) of line 85 is over: next iteration of the loop
SleepDone(w) ==
    /\ pc[w] = "sleeping"
    /\ ~cancel[w]
    /\ LoopTop(w)
    /\ UNCHANGED <<workers, shutting_down, cancel, sd_pc, sd_wait, peeked, enqueued, outcome>>
    /\ UNCHANGED <<prepVars, lockVars, appVars>>

\* the handler returns (lines 101-102), next iteration of the loop
HandlerReturn(w) ==
    /\ pc[w] = "handling"
    /\ ~cancel[w]
    /\ outcome' = [outcome EXCEPT ![message[w]] = "returned"]
    /\ LoopTop(w)
    /\ UNCHANGED <<workers, shutting_down, cancel, sd_pc, sd_wait, peeked, enqueued>>
    /\ UNCHANGED <<prepVars, lockVars, appVars>>

\* variant of HandlerRaise: the exception leaves the loop and ends the task
HandlerRaise_Propagates(w) ==
    /\ pc[w] = "handling"
    /\ ~cancel[w]
    /\ outcome' = [outcome EXCEPT ![message[w]] = "raised"]
    /\ ExitLoop(w)
    /\ UNCHANGED <<workers, shutting_down, cancel, sd_pc, sd_wait, peeked, enqueued>>
    /\ UNCHANGED <<prepVars, lockVars, appVars>>

\* variant of HandlerRaise: the failed job is put back in the queue for
\* another attempt
HandlerRaise_Requeue(w) ==
    /\ pc[w] = "handling"
    /\ ~cancel[w]
    /\ outcome' = [outcome EXCEPT ![message[w]] = "raised"]
    /\ queue' = QueuePut(queue, message[w])
    /\ pc' = [pc EXCEPT ![w] = "sleeping"]
    /\ message' = [message EXCEPT ![w] = NoJob]
    /\ UNCHANGED <<event, invoked, waitFrom>>
    /\ UNCHANGED <<workers, shutting_down, cancel, sd_pc, sd_wait, peeked, enqueued>>
    /\ UNCHANGED <<prepVars, lockVars, appVars>>

\* the handler raises an Exception, caught and logged at lines 103-104, next
\* iteration of the loop
HandlerRaise(w) ==
    /\ pc[w] = "handling"
    /\ ~cancel[w]
    /\ outcome' = [outcome EXCEPT ![message[w]] = "raised"]
    /\ LoopTop(w)
    /\ UNCHANGED <<workers, shutting_down, cancel, sd_pc, sd_wait, peeked, enqueued>>
    /\ UNCHANGED <<prepVars, lockVars, appVars>>

\* Task.cancel() of line 114 takes effect when the task is resumed:
\* CancelledError is raised at the await the task is suspended in.  It is not
\* an Exception, so neither line 103 nor line 86 catches it; a task that has
\* not started never runs.  A handler that is being awaited is ended by it.
DeliverCancel(w) ==
    /\ cancel[w]
    /\ pc[w] \notin {"none", "stopped"}
    /\ outcome' = IF pc[w] = "handling"
                  THEN [outcome EXCEPT ![message[w]] = "cancelled"]
                  ELSE outcome
    /\ pc' = [pc EXCEPT ![w] = "stopped"]
    /\ message' = [message EXCEPT ![w] = NoJob]
    /\ cancel' = [cancel EXCEPT ![w] = FALSE]
    /\ waitFrom' = [waitFrom EXCEPT ![w] = 0]
    /\ UNCHANGED <<queue, event, workers, shutting_down, sd_pc, sd_wait,
                   peeked, enqueued, invoked>>
    /\ UNCHANGED <<prepVars, lockVars, appVars>>

\* the tasks shutdown() cancels, lines 112-114
CancelTargets == {w \in Registered : pc[w] # "stopped"}

\* variant of ShutdownCall: shutdown also empties the queue
ShutdownCall_Drains ==
    /\ sd_pc = "idle"
    /\ shutting_down' = TRUE
    /\ cancel' = [w \in WorkerIds |-> cancel[w] \/ w \in CancelTargets]
    /\ queue' = <<>>
    /\ IF workers # <<>>
       THEN sd_pc' = "gathering" /\ sd_wait' = Registered
       ELSE UNCHANGED <<sd_pc, sd_wait>>
    /\ UNCHANGED <<event, workers, pc, message, peeked, enqueued,
                   invoked, outcome, waitFrom>>
    /\ UNCHANGED <<prepVars, lockVars, appVars>>

\* variant of ShutdownCall: each call flips the flag instead of setting it
ShutdownCall_Toggles ==
    /\ sd_pc = "idle"
    /\ shutting_down' = ~shutting_down
    /\ cancel' = [w \in WorkerIds |-> cancel[w] \/ w \in CancelTargets]
    /\ IF workers # <<>>
       THEN sd_pc' = "gathering" /\ sd_wait' = Registered
       ELSE UNCHANGED <<sd_pc, sd_wait>>
    /\ UNCHANGED <<queue, event, workers, pc, message, peeked, enqueued,
                   invoked, outcome, waitFrom>>
    /\ UNCHANGED <<prepVars, lockVars, appVars>>

\* shutdown(), lines 106-118, up to the await of gather
ShutdownCall ==
    /\ sd_pc = "idle"
    /\ shutting_down' = TRUE
    /\ cancel' = [w \in WorkerIds |-> cancel[w] \/ w \in CancelTargets]
    /\ IF workers # <<>>
       THEN sd_pc' = "gathering" /\ sd_wait' = Registered
       ELSE UNCHANGED <<sd_pc, sd_wait>>
    /\ UNCHANGED <<queue, event, workers, pc, message, peeked, enqueued,
                   invoked, outcome, waitFrom>>
    /\ UNCHANGED <<prepVars, lockVars, appVars>>

\* variant of GatherDone: shutdown does not wait for the tasks
GatherDone_NoWait == TRUE

\* gather (line 118) is done once every task handed to it is done
GatherDone == \A w \in sd_wait : pc[w] = "stopped"

\* variant of ShutdownReturn: the flag is cleared when shutdown() is over
ShutdownReturn_Reset ==
    /\ sd_pc = "gathering"
    /\ GatherDone
    /\ sd_pc' = "idle"
    /\ sd_wait' = {}
    /\ shutting_down' = FALSE
    /\ UNCHANGED <<queue, event, workers, pc, message, cancel,
                   peeked, enqueued, invoked, outcome, waitFrom>>
    /\ UNCHANGED <<prepVars, lockVars, appVars>>

\* shutdown() returns
ShutdownReturn ==
    /\ sd_pc = "gathering"
    /\ GatherDone
    /\ sd_pc' = "idle"
    /\ sd_wait' = {}
    /\ UNCHANGED <<queue, event, workers, shutting_down, pc, message, cancel,
                   peeked, enqueued, invoked, outcome, waitFrom>>
    /\ UNCHANGED <<prepVars, lockVars, appVars>>

\* a step of the worker task that the event loop has made ready to run
Resume(w) ==
    \/ Start(w)
    \/ ResumeWoken(w)
    \/ ResumeTimedOut(w)
    \/ SleepDone(w)

\* the handler invocation ends
HandlerEnds(w) == HandlerReturn(w) \/ HandlerRaise(w)

Next ==
    \/ \E j \in Jobs : Enqueue(j)
    \/ Peek
    \/ Register
    \/ \E n \in 1..MaxWorkers : StartWorkerPool(n)
    \/ \E w \in WorkerIds : Resume(w)
    \/ \E w \in WorkerIds : Timeout(w)
    \/ \E w \in WorkerIds : HandlerEnds(w)
    \/ \E w \in WorkerIds : DeliverCancel(w)
    \/ ShutdownCall
    \/ ShutdownReturn

Spec == Init /\ [][Next]_vars

\* The event loop runs every task that is ready, every timer expires, and a
\* handler invocation ends (the handler contract of the worker pool): a
\* worker task that can proceed eventually does.
Proceeds(w) == Resume(w) \/ Timeout(w) \/ HandlerEnds(w)

Fairness ==
    /\ \A w \in WorkerIds : WF_vars(Proceeds(w) \/ DeliverCancel(w))
    /\ WF_vars(ShutdownReturn)

\* the queue, the worker pool and shutdown() under a fair event loop
FairNext ==
    \/ \E j \in 1..MaxFairJobs : Enqueue(j)
    \/ Register
    \/ \E w \in WorkerIds : Resume(w)
    \/ \E w \in WorkerIds : Timeout(w)
    \/ \E w \in WorkerIds : HandlerEnds(w)
    \/ \E w \in WorkerIds : DeliverCancel(w)
    \/ ShutdownCall
    \/ ShutdownReturn

FairSpec == Init /\ [][FairNext]_vars /\ Fairness

\* the queue and the worker pool when shutdown() is never called
LiveNext ==
    \/ \E j \in Jobs : Enqueue(j)
    \/ Register
    \/ \E w \in WorkerIds : Resume(w)
    \/ \E w \in WorkerIds : Timeout(w)
    \/ \E w \in WorkerIds : HandlerEnds(w)

LiveSpec ==
    /\ Init
    /\ [][LiveNext]_vars
    /\ \A w \in WorkerIds : WF_vars(Proceeds(w))

\* variant of LoopFault: the exception is not caught and ends the task
LoopFault_Fatal(w) ==
    /\ pc[w] \in {"new", "sleeping", "woken", "timedout"}
    /\ ~cancel[w]
    /\ ~shutting_down
    /\ pc' = [pc EXCEPT ![w] = "stopped"]
    /\ message' = [message EXCEPT ![w] = NoJob]
    /\ waitFrom' = [waitFrom EXCEPT ![w] = 0]
    /\ UNCHANGED <<queue, event, workers, shutting_down, cancel, sd_pc, sd_wait,
                   peeked, enqueued, invoked, outcome>>
    /\ UNCHANGED <<prepVars, lockVars, appVars>>

\* the dequeue call of line 79 raises an Exception, when it is made or when
\* it is resumed from its wait, before anything was removed: caught at line
\* 86, logged, and the task sleeps 1 s (line 88)
LoopFault(w) ==
    /\ pc[w] \in {"new", "sleeping", "woken", "timedout"}
    /\ ~cancel[w]
    /\ ~shutting_down
    /\ pc' = [pc EXCEPT ![w] = "cooldown"]
    /\ message' = [message EXCEPT ![w] = NoJob]
    /\ waitFrom' = [waitFrom EXCEPT ![w] = 0]
    /\ UNCHANGED <<queue, event, workers, shutting_down, cancel, sd_pc, sd_wait,
                   peeked, enqueued, invoked, outcome>>
    /\ UNCHANGED <<prepVars, lockVars, appVars>>

\* asyncio.sleep(1) of line 88 is over: next iteration of the loop
CooldownDone(w) ==
    /\ pc[w] = "cooldown"
    /\ ~cancel[w]
    /\ LoopTop(w)
    /\ UNCHANGED <<workers, shutting_down, cancel, sd_pc, sd_wait, peeked, enqueued, outcome>>
    /\ UNCHANGED <<prepVars, lockVars, appVars>>

\* the queue and the worker pool when dequeue can fail and shutdown() is
\* never called
FaultNext ==
    \/ \E j \in 1..MaxFairJobs : Enqueue(j)
    \/ Register
    \/ \E w \in WorkerIds : Resume(w)
    \/ \E w \in WorkerIds : Timeout(w)
    \/ \E w \in WorkerIds : HandlerEnds(w)
    \/ \E w \in WorkerIds : LoopFault(w)
    \/ \E w \in WorkerIds : CooldownDone(w)

FaultSpec ==
    /\ Init
    /\ [][FaultNext]_vars
    /\ \A w \in WorkerIds : WF_vars(Proceeds(w) \/ CooldownDone(w))

\* the system with exactly one worker, a handler that always returns and no
\* shutdown() call
SingleNext ==
    \/ \E j \in Jobs : Enqueue(j)
    \/ Peek
    \/ RegisterUpTo(1)
    \/ Resume(1)
    \/ Timeout(1)
    \/ HandlerReturn(1)

SingleSpec ==
    /\ Init
    /\ [][SingleNext]_vars
    /\ WF_vars(Resume(1) \/ Timeout(1) \/ HandlerReturn(1))

\* ---------------------------------------------------------------------
\* The application of main.py around the queue: its lifecycle hooks.

\* startup_event, main.py lines 23-32: the worker count is read from
\* MESSAGE_WORKER_COUNT and start_worker_pool is scheduled as a task
StartupEvent ==
    /\ app = "init"
    /\ app' = "up"
    /\ \E n \in 1..MaxWorkers : worker_count' = <<n>>
    /\ UNCHANGED <<queue, event, enqueued, poolVars, prepVars, lockVars>>

\* the task created at main.py line 31 runs start_worker_pool(worker_count)
PoolTask ==
    /\ app = "up"
    /\ workers = <<>>
    /\ StartWorkerPool(worker_count[1])

\* the process stops.  main.py registers no handler for the shutdown event
\* and nothing in the repository calls message_queue.shutdown(): the
\* application ends without any call into the queue.
AppStop ==
    /\ app = "up"
    /\ app' = "stopped"
    /\ UNCHANGED <<worker_count, queue, event, enqueued, poolVars, prepVars, lockVars>>

\* while the application is up the webhook enqueues the parsed message
\* (webhook.py) and the workers run
Serving ==
    /\ app = "up"
    /\ \/ \E j \in Jobs : Enqueue(j)
       \/ \E w \in WorkerIds : Resume(w)
       \/ \E w \in WorkerIds : Timeout(w)
       \/ \E w \in WorkerIds : HandlerEnds(w)

AppNext ==
    \/ StartupEvent
    \/ PoolTask
    \/ AppStop
    \/ Serving

AppSpec == Init /\ [][AppNext]_vars

\* =================================================================== claims

\* C1: no duplicate delivery: whatever the interleaving of enqueue calls and
\* worker steps, every job is passed to the handler at most once in total,
\* hence by at most one worker.
C1_NoDuplicateDelivery == \A j \in Jobs : Invocations(j) <= 1

\* two workers are inside handler invocations at the same time
C1_Witness ==
    \E w1, w2 \in WorkerIds :
        /\ w1 # w2
        /\ pc[w1] = "handling"
        /\ pc[w2] = "handling"

\* a job is discarded once its handler invocation has ended
Discarded(j) == outcome[j] # "none"

\* number of places job j is in: queue slots, workers holding it, discarded
Places(j) ==
    Occurrences(j) + Cardinality(Holders(j)) + (IF Discarded(j) THEN 1 ELSE 0)

\* C2: ownership conservation: every job that was enqueued is in exactly one
\* place: in the queue (once), held by exactly one worker that is handling
\* it, or discarded after its handler invocation ended; a job that was not
\* enqueued is nowhere.
C2_OwnershipConservation ==
    \A j \in Jobs : Places(j) = (IF j \in Range(enqueued) THEN 1 ELSE 0)

\* one job is queued, one is held by a worker and one is discarded
C2_Witness ==
    /\ queue # <<>>
    /\ \E w \in WorkerIds : pc[w] = "handling"
    /\ \E j \in Jobs : Discarded(j)

C7_HandlerNotAborted == \A j \in Jobs : outcome[j] # "cancelled"

\* C8: no missed wakeup: in no reachable state is a job in the queue while
\* the signal is clear and a consumer is suspended waiting on the signal.
C8_NoMissedWakeup ==
    ~(queue # <<>> /\ ~event /\ \E w \in WorkerIds : pc[w] = "waiting")

\* an enqueue found a consumer waiting and woke it: job queued, signal set
C8_Witness ==
    queue # <<>> /\ event /\ \E w \in WorkerIds : pc[w] = "woken"

\* worker w returns from a dequeue call whose wait timed out
TimedOutReturn(w) == pc[w] = "timedout" /\ ~cancel[w] /\ pc'[w] # pc[w]

C3_NoLossSingleWorker ==
    /\ \A j \in Jobs :
        (j \in Range(enqueued) /\ workers # <<>>) ~> (outcome[j] = "returned")
    /\ [](\A j \in Jobs : outcome[j] = "returned" => Invocations(j) = 1)

\* the pool has drained: every job was enqueued and has been handled
C3_Witness ==
    /\ Len(enqueued) = MaxJobs
    /\ \A j \in Jobs : outcome[j] = "returned"
    /\ queue = <<>>

\* C5: failure isolation: a handler invocation that raises does not end the
\* worker, which goes on with its loop, and every job enqueued, before or
\* after the failing one, is still passed to the handler.
C5_FailureIsolation ==
    /\ [][\A w \in WorkerIds :
            (pc[w] = "handling" /\ outcome'[message[w]] = "raised")
                => pc'[w] \in {"waiting", "handling"}]_vars
    /\ \A j \in Jobs :
        (j \in Range(enqueued) /\ workers # <<>>) ~> Discarded(j)

\* jobs 1, 2, 3 went to one worker, handling 2 raised, 1 and 3 were handled
C5_Witness ==
    /\ MaxJobs >= 3
    /\ outcome[1] = "returned"
    /\ outcome[2] = "raised"
    /\ outcome[3] = "returned"
    /\ Len(workers) = 1

\* C6: shutdown terminates the pool: once shutdown() was called the flag is
\* set, every spawned worker eventually is stopped, whatever the queue holds
\* and without any further enqueue, and shutdown() returns, which it does
\* only when every worker spawned before the call has finished.
C6_ShutdownTerminates ==
    /\ [](sd_pc = "gathering" => shutting_down)
    /\ [][shutting_down => shutting_down']_vars
    /\ \A w \in WorkerIds :
        (shutting_down /\ w \in Registered) ~> (pc[w] = "stopped")
    /\ (sd_pc = "gathering") ~> (sd_pc = "idle")
    /\ [][(sd_pc = "gathering" /\ sd_pc' = "idle")
            => \A w \in sd_wait : pc[w] = "stopped"]_vars

\* shutdown() was called on a full pool with nothing ever enqueued, every
\* worker it waits for has stopped and it is about to return
C6_Witness ==
    /\ shutting_down
    /\ sd_pc = "gathering"
    /\ enqueued = <<>>
    /\ Cardinality(sd_wait) = MaxWorkers
    /\ \A w \in sd_wait : pc[w] = "stopped"

\* worker w is inside a dequeue call
InDequeue(w) == pc[w] \in {"waiting", "woken", "timedout"}

\* C10: dequeue never blocks indefinitely: a dequeue call that waits
\* eventually returns, with a job (the handler is invoked) or with no-job
\* (the loop sleeps), even if nothing is ever enqueued.
C10_DequeueReturns ==
    \A w \in WorkerIds : InDequeue(w) ~> (pc[w] \in {"sleeping", "handling"})

\* a dequeue call has returned no-job although nothing was ever enqueued
C10_Witness ==
    \E w \in WorkerIds : pc[w] = "sleeping" /\ enqueued = <<>>

\* worker w runs the top of its loop with the flag clear and calls dequeue:
\* as its first step, after its sleep, or when its handler invocation ended
CallsDequeue(w) ==
    /\ ~cancel[w]
    /\ ~shutting_down
    /\ \/ pc[w] \in {"new", "sleeping"} /\ pc'[w] # pc[w]
       \/ pc[w] = "handling" /\ outcome'[message[w]] # outcome[message[w]]

\* C11: a dequeue call on a non-empty queue returns the head job without
\* waiting on the signal (the signal is not cleared, the caller goes on to
\* the handler), and the queue afterwards is the previous queue without its
\* first element, the other jobs in the same order.
C11_DequeueTakesHead ==
    [][\A w \in WorkerIds :
        (CallsDequeue(w) /\ queue # <<>>) =>
            /\ message'[w] = Head(queue)
            /\ queue' = Tail(queue)
            /\ pc'[w] = "handling"
            /\ event' = event]_vars

\* a dequeue call took job 1 from a queue of three, 2 and 3 are left in order
C11_Witness ==
    /\ queue = <<2, 3>>
    /\ invoked = <<1>>
    /\ \E w \in WorkerIds : pc[w] = "handling" /\ message[w] = 1

\* C12: when several workers wait and one job is enqueued, all of them may
\* wake; a woken worker that resumes makes one removal attempt: it takes the
\* head if the queue is not empty, otherwise it leaves the queue alone and
\* returns no job (it does not wait again), so that the single job is
\* obtained by exactly one of them.
C12_WakeupRace ==
    /\ [](Len(enqueued) = 1 => Len(invoked) <= 1)
    /\ [][\A w \in WorkerIds :
            (pc[w] = "woken" /\ ~cancel[w] /\ pc'[w] \notin {"woken", "timedout"}) =>
                IF queue # <<>>
                THEN /\ pc'[w] = "handling"
                     /\ message'[w] = Head(queue)
                     /\ queue' = Tail(queue)
                ELSE /\ pc'[w] = "sleeping"
                     /\ message'[w] = NoJob
                     /\ queue' = queue
                     /\ invoked' = invoked]_vars

\* one job was enqueued while every worker waited: one of the woken workers
\* has taken it, the others are still to resume and will find the queue empty
C12_Witness ==
    /\ Len(workers) = MaxWorkers
    /\ enqueued = <<1>>
    /\ queue = <<>>
    /\ \E w \in WorkerIds :
        /\ pc[w] = "handling" /\ message[w] = 1
        /\ \A v \in WorkerIds \ {w} : pc[v] = "woken"

\* C13: enqueue can be called in every state and its effect is one insertion
\* at the tail and one raise of the signal: the queue is one longer, the jobs
\* that were queued keep their places, the new job is last, the signal is
\* set afterwards, and the worker set and the shutdown flag are unchanged.
C13_EnqueueEffect ==
    /\ [](Len(enqueued) < MaxJobs => ENABLED Enqueue(Len(enqueued) + 1))
    /\ [][Len(enqueued') = Len(enqueued) + 1 =>
            /\ Len(queue') = Len(queue) + 1
            /\ SubSeq(queue', 1, Len(queue)) = queue
            /\ queue'[Len(queue')] = enqueued'[Len(enqueued')]
            /\ event'
            /\ workers' = workers
            /\ shutting_down' = shutting_down]_vars

\* a job was appended behind two queued jobs while the signal was clear and
\* during shutdown: the signal is set, the flag still set
C13_Witness ==
    /\ queue = <<1, 2, 3>>
    /\ event
    /\ shutting_down
    /\ \E w \in WorkerIds : pc[w] = "woken"

\* the handler was called with job j and the call has not ended
InProgress(j) == Invocations(j) >= 1 /\ outcome[j] = "none"

\* C16: backpressure: the number of handler invocations in progress never
\* exceeds the number of registered workers.
C16_Backpressure ==
    Cardinality({j \in Jobs : InProgress(j)}) <= Len(workers)

\* every registered worker is in a handler invocation and a job waits in the
\* queue for one of them to come back
C16_Witness ==
    /\ Len(workers) = MaxWorkers
    /\ Cardinality({j \in Jobs : InProgress(j)}) = MaxWorkers
    /\ queue # <<>>

\* C17: a worker handles its jobs one after the other: every invocation in
\* progress is the current invocation of one worker, a worker has one
\* current job at most, and it leaves that invocation (to call dequeue again,
\* to take the next job, or to stop) only in a step that ends the invocation.
C17_SequentialWorker ==
    /\ [](\A j \in Jobs : InProgress(j) => Cardinality(Holders(j)) = 1)
    /\ [](\A w \in WorkerIds : Cardinality({j \in Jobs : w \in Holders(j)}) <= 1)
    /\ [][\A w \in WorkerIds :
            (pc[w] = "handling" /\ <<pc'[w], message'[w]>> # <<pc[w], message[w]>>) =>
                /\ outcome[message[w]] = "none"
                /\ outcome'[message[w]] # "none"]_vars

\* the only worker handles job 2 after its invocation for job 1 has ended,
\* with job 3 waiting in the queue
C17_Witness ==
    /\ Len(workers) = 1
    /\ outcome[1] \in {"returned", "raised"}
    /\ pc[1] = "handling" /\ message[1] = 2
    /\ queue = <<3>>

\* C18: a handler invocation leaves the queue as it is whether it returns or
\* raises: in the step that ends the invocation nothing is inserted (the
\* queue changes only if the same worker goes on to take the next head), and
\* the handled job, failed or not, is not in the queue again and is never
\* handled a second time.
C18_HandlerLeavesQueue ==
    /\ [](\A j \in Jobs :
            outcome[j] \in {"returned", "raised"} =>
                Occurrences(j) = 0 /\ Invocations(j) = 1)
    /\ [][\A w \in WorkerIds :
            (pc[w] = "handling" /\ outcome'[message[w]] \in {"returned", "raised"}) =>
                \/ queue' = queue
                \/ /\ queue # <<>>
                   /\ ~shutting_down
                   /\ queue' = Tail(queue)
                   /\ message'[w] = Head(queue)
                   /\ pc'[w] = "handling"]_vars

\* job 1 failed and job 2 was handled next; job 1 was not handled again and
\* job 3 is still queued
C18_Witness ==
    /\ outcome[1] = "raised"
    /\ outcome[2] = "returned"
    /\ invoked = <<1, 2>>
    /\ queue = <<3>>

HasAllPrepared(m) == \A f \in PreparedFields : m[f] # Absent

\* C19: preparation is idempotent: a payload that already has id, timestamp,
\* message_type and metadata comes back with all of them as given, whatever
\* the values (None included), and preparing a dict that was prepared before
\* changes nothing.
C19_PrepareIdempotent ==
    /\ [](HasAllPrepared(payload) => envelope = payload)
    /\ [][prepares >= 1 => envelope' = envelope]_vars

\* a payload with the four keys, two of them None, was prepared twice and is
\* as it was
C19_Witness ==
    /\ prepares = 2
    /\ HasAllPrepared(payload)
    /\ payload["id"] = None
    /\ payload["metadata"] = None
    /\ envelope = payload

\* C20: preparation fills the absent fields and no other: an absent id or
\* timestamp gets a generated value, an absent metadata the empty mapping,
\* an absent message_type "media" if the payload has a media reference and
\* "text" if not; every key that was present, and every other key, is as it
\* was.
C20_PrepareFillsAbsent ==
    [][prepares' = prepares + 1 =>
        /\ \A f \in Fields : envelope[f] # Absent => envelope'[f] = envelope[f]
        /\ \A f \in Fields \ PreparedFields : envelope'[f] = envelope[f]
        /\ envelope["id"] = Absent => envelope'["id"] \in GenIds
        /\ envelope["timestamp"] = Absent => envelope'["timestamp"] \in GenTimes
        /\ envelope["metadata"] = Absent => envelope'["metadata"] = EmptyMap
        /\ envelope["message_type"] = Absent =>
            envelope'["message_type"] =
                IF envelope["media_url"] = "url-a" THEN "media" ELSE "text"]_vars

\* a payload with a media reference and none of the four keys was prepared
C20_Witness ==
    /\ prepares = 1
    /\ \A f \in PreparedFields : payload[f] = Absent
    /\ payload["media_url"] = "url-a"
    /\ payload["content"] = "hi"
    /\ envelope["id"] \in GenIds
    /\ envelope["timestamp"] \in GenTimes
    /\ envelope["message_type"] = "media"
    /\ envelope["metadata"] = EmptyMap
    /\ envelope["media_url"] = "url-a"
    /\ envelope["content"] = "hi"

\* the contexts that hold the lock
LockHolders == {c \in Contexts : lock[c] > 0}

\* a context suspended in the wait of dequeue or in the handler
Suspended(c) == lpc[c] \in {"waiting", "woken", "timedout", "handler"}

\* C14: the lock is held by one context at most, and never by a context that
\* is suspended waiting for the signal or that is executing the handler.
C14_LockExclusive ==
    /\ Cardinality(LockHolders) <= 1
    /\ \A c \in Contexts : Suspended(c) => lock[c] = 0

\* a context holds the lock inside enqueue while another is suspended in the
\* wait of dequeue
C14_Witness ==
    \E c, o \in Contexts :
        /\ lpc[c] = "e29" /\ lock[c] = 1
        /\ lpc[o] = "waiting" /\ lock[o] = 0

\* C15: every use of the queue's collection (put, get, qsize, empty) is made
\* while the caller holds the lock.
C15_AllAccessLocked == bare = {}

Spawned == {w \in WorkerIds : pc[w] # "none"}

\* the step leaves the queue and the handler history alone
NothingProcessed ==
    /\ queue' = queue
    /\ event' = event
    /\ invoked' = invoked
    /\ outcome' = outcome

\* C22: a register_worker call adds one worker, which has not run yet, and
\* processes nothing; start_worker_pool(n) adds n such workers on the same
\* queue; the number of worker tasks spawned equals the number of workers
\* registered.
C22_RegisterCounts ==
    /\ [](Cardinality(Spawned) = Len(workers))
    /\ [][/\ Register =>
                /\ Len(workers') = Len(workers) + 1
                /\ pc'[workers'[Len(workers')]] = "new"
                /\ NothingProcessed
          /\ \A n \in 1..MaxWorkers :
                StartWorkerPool(n) =>
                    /\ Len(workers') = Len(workers) + n
                    /\ SubSeq(workers', 1, Len(workers)) = workers
                    /\ Cardinality(Spawned') = Cardinality(Spawned) + n
                    /\ \A i \in (Len(workers) + 1)..Len(workers') :
                            pc[workers'[i]] = "none" /\ pc'[workers'[i]] = "new"
                    /\ NothingProcessed]_vars

\* the whole pool is registered while jobs are queued, and no worker has run
C22_Witness ==
    /\ Len(workers) = MaxWorkers
    /\ \A w \in WorkerIds : pc[w] = "new"
    /\ Len(queue) = MaxJobs
    /\ invoked = <<>>

\* C23: peek leaves the queue as it was: the same jobs in the same order, so
\* that the next dequeue returns the job peek returned.
C23_PeekLeavesQueue == [][Peek => queue' = queue]_vars

\* the context is inside get_length
InGetLength(c) == running = {c} /\ lpc[c] \in {"g51", "g52", "g_ret"}

\* C24: get_length returns the number of jobs queued and changes nothing:
\* the queue, its order, the signal and the worker set are as before.
C24_GetLengthPure ==
    [][\A c \in Contexts :
        InGetLength(c) =>
            /\ queue' = queue
            /\ event' = event
            /\ workers' = workers
            /\ enqueued' = enqueued
            /\ lpc[c] = "g52" => qsize' = <<Len(queue)>>]_vars

\* get_length has returned 2 for a queue of two jobs while the signal is set
C24_Witness ==
    /\ qsize = <<2>>
    /\ Len(queue) = 2
    /\ event
    /\ \E c \in Contexts : lpc[c] = "g_ret"

\* C25: the producer is never blocked: in every reachable state, whatever
\* the queue length, with no worker, with every worker inside a handler, and
\* during and after shutdown, the next enqueue call can complete.
C25_ProducerNeverBlocked ==
    \A j \in Jobs : j = Len(enqueued) + 1 => ENABLED Enqueue(j)

\* every job was enqueued with no worker taking any; the registered workers
\* are all stopped and shutdown has returned
C25_Witness ==
    /\ shutting_down /\ sd_pc = "idle"
    /\ Len(workers) = MaxWorkers
    /\ \A w \in WorkerIds : pc[w] = "stopped"
    /\ Len(queue) = MaxJobs
    /\ invoked = <<>>

\* C26: the flag is looked at at the top of every iteration: once it is set,
\* no worker enters dequeue and no handler invocation begins, during
\* shutdown() and after it has returned.
C26_NoWorkAfterFlag ==
    [][shutting_down =>
        /\ invoked' = invoked
        /\ \A w \in WorkerIds :
            pc'[w] \in {"waiting", "woken", "timedout", "handling"} =>
                pc[w] \in {"waiting", "woken", "timedout", "handling"}
                    /\ message'[w] = message[w]]_vars

\* a worker registered after shutdown() began has run, seen the flag and
\* stopped, with jobs still in the queue
C26_Witness ==
    /\ shutting_down
    /\ sd_pc = "gathering"
    /\ queue # <<>>
    /\ \E w \in Registered \ sd_wait : pc[w] = "stopped"

\* C27: every job a worker removes from the queue is passed to the handler,
\* once: a step that shortens the queue hands the removed head to the handler
\* of one worker, and a job that was enqueued and is no longer queued has
\* exactly one invocation.
C27_RemovedIsHandled ==
    /\ [](\A j \in Range(enqueued) : Occurrences(j) = 0 => Invocations(j) = 1)
    /\ [][Len(queue') < Len(queue) =>
            /\ queue' = Tail(queue)
            /\ invoked' = Append(invoked, Head(queue))
            /\ \E w \in WorkerIds :
                pc'[w] = "handling" /\ message'[w] = Head(queue)]_vars

\* every job has left the queue and has one invocation
C27_Witness ==
    /\ Len(enqueued) = MaxJobs
    /\ queue = <<>>
    /\ \A j \in Jobs : Invocations(j) = 1

\* C28: an error raised in the worker loop outside the handler does not end
\* the worker: the worker goes to its pause with the queue and the handler
\* history as they were, no worker ever stops, and after the pause the loop
\* runs again (the worker is back in dequeue or in the handler).
C28_FaultResilience ==
    /\ [](\A w \in WorkerIds : pc[w] # "stopped")
    /\ [][\A w \in WorkerIds :
            (pc[w] # "cooldown" /\ pc'[w] = "cooldown") =>
                /\ queue' = queue
                /\ invoked' = invoked
                /\ outcome' = outcome
                /\ workers' = workers]_vars
    /\ \A w \in WorkerIds :
            pc[w] = "cooldown" ~> pc[w] \in {"waiting", "handling"}

\* a worker pauses after a fault while a job is queued and another worker is
\* inside the handler
C28_Witness ==
    \E w, v \in WorkerIds :
        /\ pc[w] = "cooldown"
        /\ pc[v] = "handling"
        /\ queue # <<>>

\* C29: the lifecycle of a worker only goes forward: a task that exists
\* stays, a stopped worker stays stopped, the shutdown flag is never cleared
\* once set, and a worker that has not run when the flag is set stops
\* without calling dequeue.
C29_LifecycleMonotonic ==
    [][/\ shutting_down => shutting_down'
       /\ \A w \in WorkerIds :
            /\ pc[w] = "stopped" => pc'[w] = "stopped" /\ message'[w] = NoJob
            /\ pc[w] # "none" => pc'[w] # "none"
            /\ (pc[w] = "new" /\ shutting_down) => pc'[w] \in {"new", "stopped"}]_vars

\* shutdown() has returned: one worker is stopped, another was registered
\* afterwards and has not run yet, jobs are queued
C29_Witness ==
    /\ shutting_down
    /\ sd_pc = "idle"
    /\ queue # <<>>
    /\ \E w, v \in WorkerIds : pc[w] = "stopped" /\ pc[v] = "new" /\ ~cancel[v]

\* C30: with any number of workers the jobs leave the queue in enqueue
\* order: the jobs dequeued so far, in the order of their removal (which is
\* the order of their handler invocations), are the first jobs enqueued.
C30_DequeueOrder == invoked = SubSeq(enqueued, 1, Len(invoked))

\* C31: progress with a pool: with at least one worker, handlers that return
\* or raise, no shutdown and a fair event loop, every job that was enqueued
\* is eventually passed to the handler, for any number of workers and any
\* interleaving of enqueues, wakeups and timeouts.
C31_PoolProgress ==
    \A j \in Jobs :
        (j \in Range(enqueued) /\ workers # <<>>) ~> (Invocations(j) >= 1)

\* a full pool has been given every job, one invocation raised, and a worker
\* is back in the wait of dequeue
C31_Witness ==
    /\ Len(workers) = MaxWorkers
    /\ \A j \in Jobs : Invocations(j) = 1
    /\ \E j \in Jobs : outcome[j] = "raised"
    /\ \E w \in WorkerIds : pc[w] = "waiting"

\* C32: no per-conversation exclusion: a worker that calls dequeue while
\* another worker is inside the handler with a job of the conversation of
\* the head job takes the head all the same, so two workers can be inside
\* handler invocations for two jobs of one conversation at the same time.
C32_NoConversationExclusion ==
    [][\A w \in WorkerIds :
        (/\ CallsDequeue(w)
         /\ queue # <<>>
         /\ \E v \in WorkerIds \ {w} :
                pc[v] = "handling" /\ Phone(message[v]) = Phone(Head(queue)))
        => (pc'[w] = "handling" /\ message'[w] = Head(queue))]_vars

\* two workers are inside the handler with two jobs of one conversation
C32_Witness ==
    \E w, v \in WorkerIds :
        /\ w # v
        /\ pc[w] = "handling" /\ pc[v] = "handling"
        /\ message[w] # message[v]
        /\ Phone(message[w]) = Phone(message[v])
        /\ outcome[message[w]] = "none" /\ outcome[message[v]] = "none"
\* C33: shutdown does not drain or clear the queue.  From the step of the
\* shutdown() call onwards no job is handed to the handler, and every step
\* keeps the queued jobs in place: the old queue is a prefix of the new one
\* (jobs enqueued later are appended behind it).  The only step that reorders
\* the queue is peek's rotation, which keeps the same jobs queued.
C33_ShutdownKeepsQueue ==
    [][shutting_down' =>
        /\ invoked' = invoked
        /\ \/ Len(queue') >= Len(queue) /\ SubSeq(queue', 1, Len(queue)) = queue
           \/ Peek /\ \A j \in Jobs : Occurrences(j)' = Occurrences(j)]_vars

\* shutdown has returned, every worker has stopped, one job was handled
\* before the shutdown and two are still queued
C33_Witness ==
    /\ shutting_down
    /\ sd_pc = "idle"
    /\ workers # <<>>
    /\ \A w \in Registered : pc[w] = "stopped"
    /\ invoked = <<1>>
    /\ queue = <<2, 3>>

\* C34: shutdown is idempotent.  A call made when the flag is already set and
\* every registered worker has stopped leaves the flag, the worker list, the
\* queue and the workers' states as they were, cancels nothing, and its gather
\* is over at once, so the call can return; its return changes none of them
\* either.
C34_ShutdownIdempotent ==
    /\ [][(/\ shutting_down
           /\ \A w \in Registered : pc[w] = "stopped"
           /\ sd_pc' # sd_pc)
          => /\ shutting_down'
             /\ workers' = workers
             /\ queue' = queue
             /\ pc' = pc
             /\ cancel' = cancel]_vars
    /\ []((/\ shutting_down
           /\ sd_pc = "gathering"
           /\ \A w \in Registered : pc[w] = "stopped") => ENABLED ShutdownReturn)

\* the state a first shutdown leaves behind and in which a second call is
\* made: the flag is set, the call has returned, the workers have all stopped
\* and jobs are still queued
C34_Witness ==
    /\ shutting_down
    /\ sd_pc = "idle"
    /\ Len(workers) = MaxWorkers
    /\ \A w \in Registered : pc[w] = "stopped" /\ ~cancel[w]
    /\ queue # <<>>

\* C35: the blocking get() is only ever executed on a non-empty queue.  A
\* context that is about to execute the get() of dequeue (line 46) or of peek
\* (line 59) holds the lock, is the running context, and finds the queue
\* non-empty, so the get() returns at once; and the queue only ever shrinks by
\* such a get().
C35_GetOnlyNonEmpty ==
    /\ [](\A c \in Contexts :
            lpc[c] \in {"d46", "p59"}
                => queue # <<>> /\ lock[c] > 0 /\ running = {c})
    /\ [][Len(queue') < Len(queue)
            => \E c \in Contexts :
                   lpc[c] = "d46" /\ lock[c] > 0 /\ lpc'[c] = "d46r"]_vars

\* the race the re-check is for: a context is woken from its wait while
\* another context, holding the lock, is about to remove the only job
C35_Witness ==
    \E c, o \in Contexts :
        /\ c # o
        /\ lpc[c] = "d46"
        /\ lock[c] > 0
        /\ Len(queue) = 1
        /\ lpc[o] = "woken"

\* C36: the application uses both lifecycle hooks: it starts the worker pool
\* with the configured worker count at process start and calls shutdown() at
\* process stop.  The pool is started with the configured count, and the
\* step in which the application stops sets the shutdown flag of the queue.
C36_BothLifecycleHooks ==
    [][/\ (workers = <<>> /\ workers' # <<>>) => Len(workers') = worker_count[1]
       /\ (app = "up" /\ app' = "stopped") => shutting_down']_vars

====
